---- MODULE Spec2Model ----
(***************************************************************************)
(* YouPod: the download ledger (HistoryManager), the per-channel selection *)
(* of new videos in main, and the feed generator's ordering and capping.   *)
(*                                                                         *)
(* Text is modelled as sequences of one-character strings, so that join,   *)
(* split, trim and includes operate on characters as the JavaScript code   *)
(* does.  A run of characters that no operation looks inside (the header   *)
(* line, the name of the downloads directory, a file extension) is written *)
(* as one element.                                                         *)
(***************************************************************************)
EXTENDS Integers, Sequences, FiniteSets, TLC

VARIABLES
  history,      \* HistoryManager.history: the Map, as its entries in insertion order
  file,         \* the content of data/download_history.tsv, a sequence of characters
  now,          \* the wall clock read by new Date()
  last,         \* the operation that ran last, with its arguments and outcome
  pc,           \* where main is
  run,          \* main's state: options, channel in hand, listing, videos selected
  feedIn,       \* the arguments of a FeedGenerator call
  feedOut,      \* what the last FeedGenerator call built
  download,     \* the downloadVideo call in hand: its options, loop and outcome
  disk,         \* the output files that exist under downloads/
  calls         \* the HistoryManager calls in flight, each with its position

vars == <<history, file, now, last, pc, run, feedIn, feedOut, download, disk, calls>>

storeVars == <<history, file, now, last>>
callVars == <<download, disk, calls>>
mainVars == <<pc, run, feedIn, feedOut, callVars>>

----------------------------------------------------------------------------
(* Bounds of the model *)

MaxClock == 1        \* the clock stops advancing here
MaxLines == 2        \* data lines the backing file may hold
NumVideos == 2       \* videos of the catalogue the upstream feeds list
MaxFeedEntries == 3  \* videos whose entries a FeedGenerator call may be given
MaxListing == 2      \* videos in one fetched listing
MaxRuns == 2         \* runs of main

----------------------------------------------------------------------------
(* Text primitives *)

\* JavaScript's null and undefined, as values no text equals
Null == <<"<null>">>

Undefined == <<"<undefined>">>
NaN == -1

Tab == "\t"
Newline == "\n"

IsWhitespace(c) == c \in {" ", Tab, Newline}

TrimStart(s) ==
  IF \A i \in 1..Len(s) : IsWhitespace(s[i]) THEN <<>>
  ELSE SubSeq(s, CHOOSE i \in 1..Len(s) :
                   /\ ~IsWhitespace(s[i])
                   /\ \A j \in 1..(i - 1) : IsWhitespace(s[j]), Len(s))

TrimEnd(s) ==
  IF \A i \in 1..Len(s) : IsWhitespace(s[i]) THEN <<>>
  ELSE SubSeq(s, 1, CHOOSE i \in 1..Len(s) :
                      /\ ~IsWhitespace(s[i])
                      /\ \A j \in (i + 1)..Len(s) : IsWhitespace(s[j]))

Trim(s) == TrimEnd(TrimStart(s))

\* String.prototype.split on a one-character separator
Split(s, sep) ==
  LET at == SelectSeq([i \in 1..Len(s) |-> i], LAMBDA i : s[i] = sep)
      n == Len(at)
  IN [k \in 1..(n + 1) |->
        SubSeq(s, IF k = 1 THEN 1 ELSE at[k - 1] + 1,
                  IF k = n + 1 THEN Len(s) ELSE at[k] - 1)]

RECURSIVE Join(_, _)
Join(parts, sep) ==
  IF parts = <<>> THEN <<>>
  ELSE IF Len(parts) = 1 THEN parts[1]
  ELSE parts[1] \o <<sep>> \o Join(Tail(parts), sep)

Includes(s, sub) ==
  \E i \in 0..(Len(s) - Len(sub)) : SubSeq(s, i + 1, i + Len(sub)) = sub

StartsWith(s, pre) == Len(pre) <= Len(s) /\ SubSeq(s, 1, Len(pre)) = pre

Digits == <<"0", "1", "2", "3", "4", "5", "6", "7", "8", "9">>

IsDigit(c) == \E d \in 1..10 : Digits[d] = c

DigitValue(c) == (CHOOSE d \in 1..10 : Digits[d] = c) - 1

RECURSIVE NumberToString(_)
NumberToString(n) ==
  IF n = NaN THEN <<"N", "a", "N">>
  ELSE IF n < 10 THEN <<Digits[n + 1]>>
  ELSE NumberToString(n \div 10) \o <<Digits[(n % 10) + 1]>>

RECURSIVE ParseDigits(_, _, _)
ParseDigits(s, i, acc) ==
  IF i <= Len(s) /\ IsDigit(s[i]) THEN ParseDigits(s, i + 1, acc * 10 + DigitValue(s[i]))
  ELSE acc

ParseInt(s) ==
  LET t == TrimStart(s) IN
  IF s = Undefined \/ t = <<>> \/ ~IsDigit(t[1]) THEN NaN ELSE ParseDigits(t, 1, 0)

\* new Date(text).getTime(): a timestamp is written as its ordinal in digits
GetTime(s) ==
  IF s # Undefined /\ s # <<>> /\ \A i \in 1..Len(s) : IsDigit(s[i])
  THEN ParseDigits(s, 1, 0) ELSE NaN

\* new Date().toISOString()
ToISOString(t) == NumberToString(t)

----------------------------------------------------------------------------
(* Paths *)

RootDir == <<"/", "r">>

PathJoin(a, b) == a \o <<"/">> \o b

ToRelativePath(absolutePath) ==
  IF StartsWith(absolutePath, RootDir \o <<"/">>)
  THEN SubSeq(absolutePath, Len(RootDir) + 2, Len(absolutePath))
  ELSE absolutePath

LastIndexOf(s, c) ==
  IF \E i \in 1..Len(s) : s[i] = c
  THEN CHOOSE i \in 1..Len(s) : s[i] = c /\ \A j \in (i + 1)..Len(s) : s[j] # c
  ELSE 0

\* path.extname(p).replace('.', '')
ExtNameNoDot(p) ==
  LET slash == LastIndexOf(p, "/")
      dot == LastIndexOf(p, ".")
  IN IF dot > slash + 1 THEN SubSeq(p, dot + 1, Len(p)) ELSE <<>>

----------------------------------------------------------------------------
(* Configuration and the upstream catalogue *)

\* config.channels: the slug of the first is a substring of the slug of the second
Channels ==
  << [label |-> <<"X">>, slug |-> <<"x">>, format |-> "video"],
     [label |-> <<"Y">>, slug |-> <<"x", "y">>, format |-> "video"] >>

ChannelIndexes == 1..Len(Channels)

\* what fetchYouTubeFeed can list, and what fs.stat reports for the download of
\* each; videos 1 and 2 are published at the same time
Catalogue ==
  << [videoId |-> <<"1">>, title |-> <<"T">>, publishDate |-> <<"2">>,
      description |-> <<"d">>, fileSize |-> 12],
     [videoId |-> <<"2">>, title |-> <<"U">>, publishDate |-> <<"2">>,
      description |-> Undefined, fileSize |-> 7],
     [videoId |-> <<"3">>, title |-> <<"V">>, publishDate |-> <<"1">>,
      description |-> Undefined, fileSize |-> 0],
     [videoId |-> <<"4">>, title |-> <<"W">>, publishDate |-> <<"3">>,
      description |-> Undefined, fileSize |-> 5],
     [videoId |-> <<"5">>, title |-> <<"Z">>, publishDate |-> <<"1">>,
      description |-> Undefined, fileSize |-> 9] >>

Videos == { Catalogue[i] : i \in 1..NumVideos }

VideoIds == { v.videoId : v \in Videos }

VideoOf(id) == CHOOSE v \in Videos : v.videoId = id

\* the characters free text is made of in the model, with their UTF-8 bytes
TextChars == {"d", "T", "U", Tab, Newline, "é"}

CharBytes(c) ==
  CASE c = Tab -> <<9>>
    [] c = Newline -> <<10>>
    [] c = "T" -> <<84>>
    [] c = "U" -> <<85>>
    [] c = "d" -> <<100>>
    [] c = "é" -> <<195, 169>>

RECURSIVE Utf8Bytes(_)
Utf8Bytes(text) ==
  IF text = <<>> THEN <<>> ELSE CharBytes(Head(text)) \o Utf8Bytes(Tail(text))

RECURSIVE Utf8Text(_)
Utf8Text(bytes) ==
  IF bytes = <<>> THEN <<>>
  ELSE LET n == IF bytes[1] < 128 THEN 1 ELSE 2
       IN << CHOOSE c \in TextChars : CharBytes(c) = SubSeq(bytes, 1, n) >>
            \o Utf8Text(SubSeq(bytes, n + 1, Len(bytes)))

Base64Alphabet ==
  <<
     "A", "B", "C", "D", "E", "F", "G", "H", "I", "J", "K", "L", "M", "N", "O", "P",
     "Q", "R", "S", "T", "U", "V", "W", "X", "Y", "Z", "a", "b", "c", "d", "e", "f",
     "g", "h", "i", "j", "k", "l", "m", "n", "o", "p", "q", "r", "s", "t", "u", "v",
     "w", "x", "y", "z", "0", "1", "2", "3", "4", "5", "6", "7", "8", "9", "+", "/" >>

\* three bytes make four digits; one or two bytes left are padded with "="
RECURSIVE Base64OfBytes(_)
Base64OfBytes(bytes) ==
  LET A(k) == Base64Alphabet[k + 1]
  IN IF bytes = <<>> THEN <<>>
     ELSE IF Len(bytes) = 1
     THEN LET n == bytes[1] * 16
          IN << A(n \div 64), A(n % 64), "=", "=" >>
     ELSE IF Len(bytes) = 2
     THEN LET n == (bytes[1] * 256 + bytes[2]) * 4
          IN << A(n \div 4096), A((n \div 64) % 64), A(n % 64), "=" >>
     ELSE LET n == bytes[1] * 65536 + bytes[2] * 256 + bytes[3]
          IN << A(n \div 262144), A((n \div 4096) % 64), A((n \div 64) % 64), A(n % 64) >>
               \o Base64OfBytes(SubSeq(bytes, 4, Len(bytes)))

\* four digits make three bytes; three digits two bytes, two digits one byte
RECURSIVE BytesOfBase64(_)
BytesOfBase64(digits) ==
  LET D(k) == (CHOOSE i \in 1..64 : Base64Alphabet[i] = digits[k]) - 1
  IN IF Len(digits) < 2 THEN <<>>
     ELSE IF Len(digits) = 2
     THEN << (D(1) * 64 + D(2)) \div 16 >>
     ELSE IF Len(digits) = 3
     THEN LET n == (D(1) * 4096 + D(2) * 64 + D(3)) \div 4
          IN << n \div 256, n % 256 >>
     ELSE LET n == D(1) * 262144 + D(2) * 4096 + D(3) * 64 + D(4)
          IN << n \div 65536, (n \div 256) % 256, n % 256 >>
               \o BytesOfBase64(SubSeq(digits, 5, Len(digits)))

\* Buffer.from(text).toString('base64')
Base64Encode(text) == Base64OfBytes(Utf8Bytes(text))

\* Buffer.from(code, 'base64').toString('utf-8')
Base64Decode(code) ==
  Utf8Text(BytesOfBase64(SelectSeq(code, LAMBDA c : c # "=")))

OutputBaseDir == PathJoin(RootDir, <<"downloads">>)

\* downloadVideo's outputFilePath for a video of a channel
OutputFilePath(channel, videoId) ==
  LET format == IF channel.format = "audio" THEN <<"mp3">> ELSE <<"mp4">>
  IN PathJoin(PathJoin(OutputBaseDir, channel.slug), videoId \o <<".">> \o format)

----------------------------------------------------------------------------
(* HistoryManager *)

\* the header line, which no reader splits
Header ==
  << "channelLabel videoId title filePath fileSize format publishedAt downloadedAt" >>

\* the file ensureHistoryFileSync writes when there is none
FreshFile == Header \o <<Newline>>

MapIndex(map, videoId) ==
  IF \E i \in 1..Len(map) : map[i].videoId = videoId
  THEN CHOOSE i \in 1..Len(map) : map[i].videoId = videoId
  ELSE 0

MapHas(map, videoId) == MapIndex(map, videoId) # 0

MapGet(map, videoId) == map[MapIndex(map, videoId)]

\* Map.set keeps the position of a key it already holds
MapSet(map, videoId, entry) ==
  IF MapHas(map, videoId)
  THEN [map EXCEPT ![MapIndex(map, videoId)] = entry]
  ELSE Append(map, entry)

Field(fields, k) == IF k <= Len(fields) THEN fields[k] ELSE Undefined

\* Array.join writes undefined as the empty string
Text(x) == IF x = Undefined THEN <<>> ELSE x

LineEntry(line) ==
  LET fields == Split(line, Tab)
      encodedDescription == Field(fields, 9)
  IN [ channelLabel |-> Field(fields, 1),
       videoId |-> Field(fields, 2),
       title |-> Field(fields, 3),
       filePath |-> Field(fields, 4),
       fileSize |-> ParseInt(Field(fields, 5)),
       format |-> Field(fields, 6),
       publishedAt |-> Field(fields, 7),
       downloadedAt |-> Field(fields, 8),
       description |-> IF encodedDescription # Undefined /\ encodedDescription # <<>>
                       THEN Base64Decode(encodedDescription) ELSE Undefined ]

\* the lines after the header that are not blank
DataLines(content) ==
  LET lines == Split(Trim(content), Newline)
  IN SelectSeq(SubSeq(lines, 2, Len(lines)), LAMBDA line : Trim(line) # <<>>)

RECURSIVE LoadLines(_, _)
LoadLines(lines, map) ==
  IF lines = <<>> THEN map
  ELSE LET entry == LineEntry(Head(lines))
       IN LoadLines(Tail(lines), MapSet(map, entry.videoId, entry))

LoadHistorySync(content) == LoadLines(DataLines(content), <<>>)

IsDownloaded(videoId) == MapHas(history, videoId)

\* getChannelEntries' comparator, b.time - a.time; a NaN result counts as 0
ComparePublished(a, b) ==
  LET ta == GetTime(a.publishedAt)
      tb == GetTime(b.publishedAt)
  IN IF ta = NaN \/ tb = NaN THEN 0 ELSE tb - ta

\* a sort that puts an element before those it ties with
RECURSIVE InsertSortedUnstable(_, _)
InsertSortedUnstable(sorted, e) ==
  IF sorted = <<>> THEN <<e>>
  ELSE IF ComparePublished(e, Head(sorted)) <= 0 THEN <<e>> \o sorted
  ELSE <<Head(sorted)>> \o InsertSortedUnstable(Tail(sorted), e)

\* Array.prototype.sort is stable: an element goes after those it does not precede
RECURSIVE InsertSorted(_, _)
InsertSorted(sorted, e) ==
  IF sorted = <<>> THEN <<e>>
  ELSE IF ComparePublished(e, Head(sorted)) < 0 THEN <<e>> \o sorted
  ELSE <<Head(sorted)>> \o InsertSorted(Tail(sorted), e)

RECURSIVE SortByPublished(_)
SortByPublished(entries) ==
  IF entries = <<>> THEN <<>>
  ELSE InsertSorted(SortByPublished(SubSeq(entries, 1, Len(entries) - 1)),
                    entries[Len(entries)])

GetChannelEntries(map, channelLabel) ==
  SortByPublished(SelectSeq(map, LAMBDA e : e.channelLabel = channelLabel))

\* loadHistory(channelSlug): the lines of the file whose filePath includes the slug;
\* a line without a filePath makes includes throw, and the catch returns []
LoadHistory(content, channelSlug) ==
  LET lines == DataLines(content)
      entries == [i \in 1..Len(lines) |-> LineEntry(lines[i])]
      kept == SelectSeq(entries,
                LAMBDA e : e.filePath # Undefined /\ Includes(e.filePath, channelSlug))
  IN IF \E i \in 1..Len(entries) : entries[i].filePath = Undefined THEN <<>>
     ELSE [i \in 1..Len(kept) |->
             [ videoId |-> kept[i].videoId,
               title |-> kept[i].title,
               url |-> <<"https://www.youtube.com/watch?v=">> \o Text(kept[i].videoId),
               publishDate |-> kept[i].publishedAt,
               downloadDate |-> kept[i].downloadedAt,
               filePath |-> kept[i].filePath,
               channelLabel |-> kept[i].channelLabel ]]

\* the label addToHistory derives from a slug when the entry carries none
ToUpperCase(c) == CASE c = "x" -> "X" [] c = "y" -> "Y" [] OTHER -> c

LabelFromSlug(channelSlug) ==
  IF channelSlug = <<>> THEN <<>>
  ELSE <<ToUpperCase(channelSlug[1])>>
       \o [i \in 1..(Len(channelSlug) - 1) |->
             IF channelSlug[i + 1] = "-" THEN " " ELSE channelSlug[i + 1]]

\* the HistoryEntry addToHistory builds from its arguments and the stat result
AddToHistoryEntry(channelSlug, entry, fileSize) ==
  [ channelLabel |-> IF entry.channelLabel # Undefined /\ entry.channelLabel # <<>>
                     THEN entry.channelLabel ELSE LabelFromSlug(channelSlug),
    videoId |-> entry.videoId,
    title |-> entry.title,
    filePath |-> ToRelativePath(entry.filePath),
    fileSize |-> fileSize,
    format |-> ExtNameNoDot(entry.filePath),
    publishedAt |-> entry.publishDate,
    downloadedAt |-> entry.downloadDate,
    description |-> entry.description ]

\* the line addToHistory appends for a new entry
AddToHistoryLine(newEntry) ==
  Join(<< Text(newEntry.channelLabel), Text(newEntry.videoId), Text(newEntry.title),
          Text(newEntry.filePath), NumberToString(newEntry.fileSize),
          Text(newEntry.format), Text(newEntry.publishedAt),
          Text(newEntry.downloadedAt),
          IF newEntry.description # Undefined /\ newEntry.description # <<>>
          THEN Base64Encode(newEntry.description) ELSE <<>> >>, Tab)

\* the HistoryEntry addEntry builds; it carries no description
AddEntryEntry(channelLabel, videoEntry, downloadResult, clock) ==
  [ channelLabel |-> channelLabel,
    videoId |-> downloadResult.videoId,
    title |-> downloadResult.title,
    filePath |-> ToRelativePath(downloadResult.filePath),
    fileSize |-> downloadResult.fileSize,
    format |-> downloadResult.format,
    publishedAt |-> videoEntry.publishDate,
    downloadedAt |-> ToISOString(clock),
    description |-> Undefined ]

\* the line addEntry appends
AddEntryLine(entry) ==
  Join(<< Text(entry.channelLabel), Text(entry.videoId), Text(entry.title),
          Text(entry.filePath), NumberToString(entry.fileSize), Text(entry.format),
          Text(entry.publishedAt), Text(entry.downloadedAt) >>, Tab)

\* fs.appendFile(path, line + '\n')
AppendFile(content, line) == content \o line \o <<Newline>>

\* the map addToHistory leaves: set in both branches, before any write
AddToHistoryMap(map, newEntry) == MapSet(map, newEntry.videoId, newEntry)

\* the file addToHistory leaves when its write succeeds: only a new id is written
AddToHistoryFile(map, content, newEntry) ==
  IF MapHas(map, newEntry.videoId) THEN content
  ELSE AppendFile(content, AddToHistoryLine(newEntry))

\* the file addEntry leaves when its write succeeds: always one more line
AddEntryFile(map, content, entry) == AppendFile(content, AddEntryLine(entry))

----------------------------------------------------------------------------
(* The ledger's operations, called directly *)

NoRun == [n |-> 0, channel |-> 0, maxVideos |-> 0, listing |-> <<>>, selected |-> <<>>,
          k |-> 0]

NoFeedIn == [entriesByChannel |-> <<>>, options |-> <<>>]

NoFeedOut == [op |-> "none", docs |-> <<>>, outputPaths |-> <<>>]

\* no downloadVideo call was made yet
NoDownload ==
  [ state |-> "none", channel |-> 0, videoId |-> <<>>, retryCount |-> 0,
    attempt |-> 0, executed |-> 0, lastError |-> Null, result |-> Null ]

\* nothing is being downloaded, no output file exists, no call is in flight
NoCallInHand ==
  /\ download = NoDownload
  /\ disk = {}
  /\ calls = <<>>

NoCall == [op |-> "none", videoId |-> <<>>, threw |-> FALSE, existed |-> FALSE]

\* a SimpleHistoryEntry for a video of a channel, its description included
MainEntry(channel, video, filePath, clock) ==
  [ videoId |-> video.videoId,
    title |-> video.title,
    publishDate |-> video.publishDate,
    downloadDate |-> ToISOString(clock),
    filePath |-> filePath,
    channelLabel |-> channel.label,
    description |-> video.description ]

\* addToHistory(channelSlug, entry); writeOk is whether fs.appendFile succeeds
AddToHistoryCall(channelSlug, entry, fileSize, writeOk) ==
  LET newEntry == AddToHistoryEntry(channelSlug, entry, fileSize)
      existed == MapHas(history, entry.videoId)
  IN /\ existed \/ Len(DataLines(file)) < MaxLines
     /\ writeOk \/ ~existed
     /\ history' = AddToHistoryMap(history, newEntry)
     /\ file' = IF writeOk THEN AddToHistoryFile(history, file, newEntry) ELSE file
     /\ last' = [op |-> "addToHistory", videoId |-> entry.videoId, threw |-> ~writeOk,
                 existed |-> existed]
     /\ now' = now

\* addEntry(channelLabel, videoEntry, downloadResult)
AddEntryCall(channelLabel, videoEntry, downloadResult, writeOk) ==
  LET entry == AddEntryEntry(channelLabel, videoEntry, downloadResult, now)
  IN /\ Len(DataLines(file)) < MaxLines
     /\ history' = MapSet(history, entry.videoId, entry)
     /\ file' = IF writeOk THEN AddEntryFile(history, file, entry) ELSE file
     /\ last' = [op |-> "addEntry", videoId |-> entry.videoId, threw |-> ~writeOk,
                 existed |-> MapHas(history, entry.videoId)]
     /\ now' = now

\* the DownloadResult of the downloader addEntry was written for
DownloadResultOf(channel, video) ==
  [ videoId |-> video.videoId,
    title |-> video.title,
    filePath |-> OutputFilePath(channel, video.videoId),
    fileSize |-> video.fileSize,
    format |-> ExtNameNoDot(OutputFilePath(channel, video.videoId)) ]

AddToHistory ==
  \E c \in ChannelIndexes, v \in Videos :
    /\ AddToHistoryCall(Channels[c].slug,
         MainEntry(Channels[c], v, OutputFilePath(Channels[c], v.videoId), now),
         v.fileSize, TRUE)
    /\ UNCHANGED mainVars

AddEntry ==
  \E c \in ChannelIndexes, v \in Videos :
    /\ AddEntryCall(Channels[c].label, v, DownloadResultOf(Channels[c], v), TRUE)
    /\ UNCHANGED mainVars

AddToHistoryWriteFails ==
  \E c \in ChannelIndexes, v \in Videos :
    /\ AddToHistoryCall(Channels[c].slug,
         MainEntry(Channels[c], v, OutputFilePath(Channels[c], v.videoId), now),
         v.fileSize, FALSE)
    /\ UNCHANGED mainVars

AddEntryWriteFails ==
  \E c \in ChannelIndexes, v \in Videos :
    /\ AddEntryCall(Channels[c].label, v, DownloadResultOf(Channels[c], v), FALSE)
    /\ UNCHANGED mainVars

\* new HistoryManager(): the file exists, so it is only loaded
Open ==
  /\ history' = LoadHistorySync(file)
  /\ last' = [NoCall EXCEPT !.op = "open"]
  /\ UNCHANGED <<file, now, mainVars>>

\* time passes
Tick ==
  /\ now < MaxClock
  /\ now' = now + 1
  /\ UNCHANGED <<history, file, last, mainVars>>

\* a store opened on a directory that held no history file
InitStore ==
  /\ file = FreshFile
  /\ history = LoadHistorySync(FreshFile)
  /\ now = 0
  /\ last = NoCall
  /\ pc = "library"
  /\ run = NoRun
  /\ feedIn = NoFeedIn
  /\ feedOut = NoFeedOut
  /\ NoCallInHand

NextStore == AddToHistory \/ AddEntry \/ Open \/ Tick

SpecStore == InitStore /\ [][NextStore]_vars

NextStoreIO == NextStore \/ AddToHistoryWriteFails \/ AddEntryWriteFails

SpecStoreIO == InitStore /\ [][NextStoreIO]_vars

----------------------------------------------------------------------------
(* Properties of the ledger *)

RecordOps == {"addEntry", "addToHistory"}

\* this step is a call of addEntry or addToHistory
IsRecordStep ==
  /\ last'.op \in RecordOps
  /\ now' = now
  /\ <<history, file, last>>' # <<history, file, last>>

\* the ids on the data lines of a file, one per line
LineIds(content) ==
  LET lines == DataLines(content)
  IN [k \in 1..Len(lines) |-> LineEntry(lines[k]).videoId]

\* C1: after any sequence of addEntry / addToHistory calls the map holds one entry
\* per videoId and the backing file holds at most one data line per videoId.
C1_NoDuplicateRecord ==
  /\ \A i, j \in 1..Len(history) : history[i].videoId = history[j].videoId => i = j
  /\ \A i, j \in 1..Len(LineIds(file)) : LineIds(file)[i] = LineIds(file)[j] => i = j

\* C2: recording an id again with data equal to the entry the map holds for it leaves
\* the map and the file as they were; the id is known after every record call; and an
\* id becomes known only by being recorded or loaded.
C2_RecordIdempotent ==
  [][ /\ (IsRecordStep /\ ~last'.threw /\ last'.existed
            /\ MapGet(history', last'.videoId) = MapGet(history, last'.videoId))
          => (history' = history /\ file' = file)
      /\ IsRecordStep => MapHas(history', last'.videoId)
      /\ \A id \in VideoIds :
           (MapHas(history', id) /\ ~MapHas(history, id))
             => \/ (IsRecordStep /\ last'.videoId = id)
                \/ last'.op = "open" ]_vars

\* C6: reopening the store gives, for every channel, the entries getChannelEntries
\* gave before it was closed.
C6_ReopenRoundTrip ==
  [][ last'.op = "open" =>
        \A c \in ChannelIndexes :
          GetChannelEntries(history', Channels[c].label)
            = GetChannelEntries(history, Channels[c].label) ]_vars

\* C7: a record call whose write fails leaves the in-memory map as it was.
C7_FailClosed ==
  [][ (IsRecordStep /\ last'.threw) => history' = history ]_vars

\* C8: after addToHistory for an id the map already held, a store reopened on the
\* file returns the entry just recorded.
C8_UpdateReachesFile ==
  [][ (IsRecordStep /\ last'.op = "addToHistory" /\ last'.existed /\ ~last'.threw)
        => /\ MapHas(LoadHistorySync(file'), last'.videoId)
           /\ MapGet(LoadHistorySync(file'), last'.videoId)
                = MapGet(history', last'.videoId) ]_vars

----------------------------------------------------------------------------
(* FeedGenerator *)

DefaultMaxItems == 50
AllChannelsDefaultMaxItems == 100

Min(a, b) == IF a < b THEN a ELSE b
Max(a, b) == IF a > b THEN a ELSE b

\* Array.prototype.slice(0, end)
SliceTo(seq, end) ==
  SubSeq(seq, 1, IF end < 0 THEN Max(Len(seq) + end, 0) ELSE Min(end, Len(seq)))

\* { ...defaultOptions, ...options }
MergeOptions(defaultOptions, options) ==
  [k \in DOMAIN defaultOptions \cup DOMAIN options |->
     IF k \in DOMAIN options THEN options[k] ELSE defaultOptions[k]]

\* historyEntriesByChannel.get(slug) || []
EntriesOf(historyEntriesByChannel, slug) ==
  IF slug \in DOMAIN historyEntriesByChannel THEN historyEntriesByChannel[slug] ELSE <<>>

\* the <item> built for one entry
FeedItem(entry, channelSlug, feedOptions) ==
  LET fileExt == IF entry.format = <<"mp3">> THEN <<"mp3">> ELSE <<"mp4">>
  IN [ title |-> entry.title,
       description |-> IF entry.description # Undefined /\ entry.description # <<>>
                       THEN entry.description ELSE entry.title,
       guid |-> entry.videoId,
       pubDate |-> GetTime(entry.publishedAt),
       enclosureUrl |-> IF feedOptions.baseUrl # <<>>
                        THEN feedOptions.baseUrl \o <<"/", "podcasts", "/">> \o channelSlug
                             \o <<"/", "media", "/">> \o entry.videoId \o <<".">> \o fileExt
                        ELSE entry.videoId \o <<".">> \o fileExt,
       length |-> entry.fileSize ]

\* capping the stored list before sorting it
ChannelFeedEntriesCapFirst(entries, feedOptions) ==
  SortByPublished(SliceTo(entries, feedOptions.maxItems))

\* generateChannelFeed: sort a copy newest first, cap, render
ChannelFeedEntries(entries, feedOptions) ==
  SliceTo(SortByPublished(entries), feedOptions.maxItems)

\* new Date().getFullYear(): a year lasts two readings of the clock
GetFullYear(clock) == clock \div 2

\* a channel feed whose items are dated with the time of the build
GenerateChannelFeedDocStamped(channel, entries, options, clock) ==
  LET feedOptions == MergeOptions([maxItems |-> DefaultMaxItems, baseUrl |-> <<>>], options)
      limitedEntries == SliceTo(SortByPublished(entries), feedOptions.maxItems)
  IN [ op |-> "generateChannelFeed",
       channel |-> channel.slug,
       outputPath |-> <<"feeds", "/">> \o channel.slug \o <<".xml">>,
       lastBuildDate |-> clock,
       copyright |-> <<"Copyright", " ">> \o NumberToString(GetFullYear(clock))
                     \o <<" ">> \o channel.label,
       items |-> [i \in 1..Len(limitedEntries) |->
                    [FeedItem(limitedEntries[i], channel.slug, feedOptions)
                       EXCEPT !.pubDate = clock]] ]

GenerateChannelFeedDoc(channel, entries, options, clock) ==
  LET feedOptions ==
        MergeOptions([maxItems |-> DefaultMaxItems, baseUrl |-> <<>>,
                      copyright |-> <<"Copyright", " ">> \o NumberToString(GetFullYear(clock))
                                    \o <<" ">> \o channel.label], options)
      limitedEntries == ChannelFeedEntries(entries, feedOptions)
  IN [ op |-> "generateChannelFeed",
       channel |-> channel.slug,
       outputPath |-> <<"feeds", "/">> \o channel.slug \o <<".xml">>,
       lastBuildDate |-> clock,
       copyright |-> feedOptions.copyright,
       items |-> [i \in 1..Len(limitedEntries) |->
                    FeedItem(limitedEntries[i], channel.slug, feedOptions)] ]

\* allEntries: the lists of the channels, in the order of the channels
RECURSIVE CollectEntries(_, _)
CollectEntries(channels, historyEntriesByChannel) ==
  IF channels = <<>> THEN <<>>
  ELSE EntriesOf(historyEntriesByChannel, Head(channels).slug)
       \o CollectEntries(Tail(channels), historyEntriesByChannel)

AllChannelsFeedEntries(channels, historyEntriesByChannel, feedOptions) ==
  SliceTo(SortByPublished(CollectEntries(channels, historyEntriesByChannel)),
          feedOptions.maxItems)

ToLowerCase(c) == CASE c = "X" -> "x" [] c = "Y" -> "y" [] OTHER -> c

\* channelMap.get(entry.channelLabel), or a slug made from the label
SlugOfLabel(channels, channelLabel) ==
  IF \E i \in 1..Len(channels) : channels[i].label = channelLabel
  THEN channels[CHOOSE i \in 1..Len(channels) :
                  /\ channels[i].label = channelLabel
                  /\ \A j \in (i + 1)..Len(channels) : channels[j].label # channelLabel].slug
  ELSE LET kept == SelectSeq([i \in 1..Len(channelLabel) |-> i],
                     LAMBDA i : ~IsWhitespace(channelLabel[i])
                                \/ i = 1 \/ ~IsWhitespace(channelLabel[i - 1]))
       IN [k \in 1..Len(kept) |->
             IF IsWhitespace(channelLabel[kept[k]]) THEN "-"
             ELSE ToLowerCase(channelLabel[kept[k]])]

GenerateAllChannelsFeedDoc(channels, historyEntriesByChannel, options, clock) ==
  LET feedOptions ==
        MergeOptions([maxItems |-> AllChannelsDefaultMaxItems, baseUrl |-> <<>>,
                      copyright |-> <<"Copyright", " ">> \o NumberToString(GetFullYear(clock))
                                    \o <<" ", "YouPod">>], options)
      limitedEntries == AllChannelsFeedEntries(channels, historyEntriesByChannel, feedOptions)
  IN [ op |-> "generateAllChannelsFeed",
       channel |-> <<>>,
       outputPath |-> <<"feeds", "/", "all-channels", ".xml">>,
       lastBuildDate |-> clock,
       copyright |-> feedOptions.copyright,
       items |-> [i \in 1..Len(limitedEntries) |->
                    FeedItem(limitedEntries[i],
                             SlugOfLabel(channels, Text(limitedEntries[i].channelLabel)),
                             feedOptions)] ]

\* generateAllFeeds: a feed per channel that has entries, then the aggregate
ChannelFeedDocs(channels, historyEntriesByChannel, options, clock) ==
  LET withEntries == SelectSeq(channels,
                       LAMBDA ch : EntriesOf(historyEntriesByChannel, ch.slug) # <<>>)
  IN [i \in 1..Len(withEntries) |->
        GenerateChannelFeedDoc(withEntries[i],
          EntriesOf(historyEntriesByChannel, withEntries[i].slug), options, clock)]

\* building the aggregate only when some channel feed was built
GenerateAllFeedsDocsIfAny(channels, historyEntriesByChannel, options, clock) ==
  LET docs == ChannelFeedDocs(channels, historyEntriesByChannel, options, clock)
  IN IF docs = <<>> THEN <<>>
     ELSE Append(docs, GenerateAllChannelsFeedDoc(channels, historyEntriesByChannel,
                                                  options, clock))

GenerateAllFeedsDocs(channels, historyEntriesByChannel, options, clock) ==
  Append(ChannelFeedDocs(channels, historyEntriesByChannel, options, clock),
         GenerateAllChannelsFeedDoc(channels, historyEntriesByChannel, options, clock))

\* what a call leaves behind: the documents written and the paths returned
FeedResult(op, docs) ==
  [op |-> op, docs |-> docs, outputPaths |-> [i \in 1..Len(docs) |-> docs[i].outputPath]]

----------------------------------------------------------------------------
(* FeedGenerator, called on given entries *)

VideoIdsOfCatalogue == { Catalogue[i].videoId : i \in 1..Len(Catalogue) }

VideoOfCatalogue(id) == Catalogue[CHOOSE i \in 1..Len(Catalogue) : Catalogue[i].videoId = id]

FeedVideos == { Catalogue[i] : i \in 1..MaxFeedEntries }

\* the HistoryEntry of a video recorded for a channel
RecordedEntry(channel, video) ==
  AddToHistoryEntry(channel.slug,
    MainEntry(channel, video, OutputFilePath(channel, video.videoId), 0),
    video.fileSize)

\* the lists of distinct elements of a set, in every order
ListsOf(S) ==
  UNION { { f \in [1..n -> S] : \A i, j \in 1..n : f[i] = f[j] => i = j }
          : n \in 0..Cardinality(S) }

Slugs == { Channels[c].slug : c \in ChannelIndexes }

ChannelOfSlug(slug) == Channels[CHOOSE c \in ChannelIndexes : Channels[c].slug = slug]

\* what a caller may pass: per channel a list of entries of that channel, at most
\* MaxFeedEntries in all, and options with or without maxItems
FeedInputs ==
  { [entriesByChannel |->
       [slug \in Slugs |->
          [i \in 1..Len(byChannel[slug]) |->
             RecordedEntry(ChannelOfSlug(slug), byChannel[slug][i])]],
     options |-> options] :
      byChannel \in { f \in [Slugs -> ListsOf(FeedVideos)] :
                         \A a, b \in Slugs : a # b => Len(f[a]) + Len(f[b]) <= MaxFeedEntries },
      options \in { [baseUrl |-> <<>>] }
                  \cup { [baseUrl |-> <<>>, maxItems |-> m] : m \in 0..MaxFeedEntries } }

\* an array a caller passed, had the call sorted it in place
EntriesLeftSorted(entries) == SortByPublished(entries)

\* an array a caller passed, as the call leaves it: generateChannelFeed sorts the
\* copy [...entries], generateAllChannelsFeed sorts the allEntries it collected
EntriesLeft(entries) == entries

\* the caller's map of lists after a call that read the lists of these slugs
PassedAfter(historyEntriesByChannel, slugs) ==
  [slug \in DOMAIN historyEntriesByChannel |->
     IF slug \in slugs THEN EntriesLeft(historyEntriesByChannel[slug])
     ELSE historyEntriesByChannel[slug]]

GenerateChannelFeed ==
  \E c \in ChannelIndexes :
    /\ feedOut' = FeedResult("generateChannelFeed",
                    << GenerateChannelFeedDoc(Channels[c],
                         EntriesOf(feedIn.entriesByChannel, Channels[c].slug),
                         feedIn.options, now) >>)
    /\ feedIn' = [feedIn EXCEPT !.entriesByChannel = PassedAfter(@, {Channels[c].slug})]
    /\ UNCHANGED <<storeVars, pc, run, callVars>>

GenerateAllChannelsFeed ==
  /\ feedOut' = FeedResult("generateAllChannelsFeed",
                  << GenerateAllChannelsFeedDoc(Channels, feedIn.entriesByChannel,
                                                feedIn.options, now) >>)
  /\ feedIn' = [feedIn EXCEPT !.entriesByChannel = PassedAfter(@, Slugs)]
  /\ UNCHANGED <<storeVars, pc, run, callVars>>

GenerateAllFeeds ==
  /\ feedOut' = FeedResult("generateAllFeeds",
                  GenerateAllFeedsDocs(Channels, feedIn.entriesByChannel,
                                       feedIn.options, now))
  /\ feedIn' = [feedIn EXCEPT !.entriesByChannel = PassedAfter(@, Slugs)]
  /\ UNCHANGED <<storeVars, pc, run, callVars>>

InitFeed ==
  /\ file = FreshFile
  /\ history = <<>>
  /\ now = 0
  /\ last = NoCall
  /\ pc = "library"
  /\ run = NoRun
  /\ feedIn \in FeedInputs
  /\ feedOut = NoFeedOut
  /\ NoCallInHand

NextFeed == GenerateChannelFeed \/ GenerateAllChannelsFeed \/ GenerateAllFeeds

SpecFeed == InitFeed /\ [][NextFeed]_vars

----------------------------------------------------------------------------
(* Properties of the feeds *)

FeedDocs == { feedOut.docs[k] : k \in 1..Len(feedOut.docs) }

\* the entries the call that produced a document was given, in the order given
FeedGiven(doc) ==
  IF doc.op = "generateChannelFeed"
  THEN EntriesOf(feedIn.entriesByChannel, doc.channel)
  ELSE CollectEntries(Channels, feedIn.entriesByChannel)

\* the cap in force for the call that produced a document
FeedCap(doc) ==
  IF "maxItems" \in DOMAIN feedIn.options THEN feedIn.options.maxItems
  ELSE IF doc.op = "generateChannelFeed" THEN DefaultMaxItems
  ELSE AllChannelsDefaultMaxItems

FeedDates == { GetTime(Catalogue[i].publishDate) : i \in 1..Len(Catalogue) }

CountWhere(seq, P(_)) == Cardinality({ i \in 1..Len(seq) : P(seq[i]) })

NewestFirst(items) ==
  \A i, j \in 1..Len(items) : i < j => items[i].pubDate >= items[j].pubDate

C10_CapAfterSort ==
  \A doc \in FeedDocs :
    /\ Len(doc.items) = Min(FeedCap(doc), Len(FeedGiven(doc)))
    /\ NewestFirst(doc.items)
    /\ \A id \in VideoIdsOfCatalogue :
         CountWhere(doc.items, LAMBDA it : it.guid = id)
           <= CountWhere(FeedGiven(doc), LAMBDA e : e.videoId = id)
    /\ \A i \in 1..Len(doc.items) :
         doc.items[i].pubDate = GetTime(VideoOfCatalogue(doc.items[i].guid).publishDate)
    /\ \A d \in FeedDates :
         CountWhere(doc.items, LAMBDA it : it.pubDate >= d)
           = Min(FeedCap(doc),
                 CountWhere(FeedGiven(doc), LAMBDA e : GetTime(e.publishedAt) >= d))

\* an aggregate feed of two channels, capped below the number of entries given,
\* that is not the first entries in storage order
C10_Witness ==
  \E doc \in FeedDocs :
    /\ doc.op = "generateAllChannelsFeed"
    /\ \A slug \in Slugs : EntriesOf(feedIn.entriesByChannel, slug) # <<>>
    /\ FeedCap(doc) > 0
    /\ FeedCap(doc) < Len(FeedGiven(doc))
    /\ [i \in 1..Len(doc.items) |-> doc.items[i].guid]
         # [i \in 1..FeedCap(doc) |-> FeedGiven(doc)[i].videoId]

----------------------------------------------------------------------------
(* main: one run downloads the new videos of each channel, then builds the feeds *)

DefaultMaxVideos == 10

\* what parseCommandLineArgs may leave in options.maxVideos: the default, or the
\* number after --max, which may be zero or negative
MaxVideosOptions == {DefaultMaxVideos} \cup (-1)..(MaxListing - 1)

\* what fetchYouTubeFeed may return for a channel: it returns the entries of the
\* upstream document as they come, a repeated entry included
Listings == UNION { [1..n -> Videos] : n \in 0..MaxListing }

\* videos.filter(video => !history.some(h => h.videoId === video.videoId))
NewVideos(videos, channelHistory) ==
  SelectSeq(videos, LAMBDA video :
    ~\E i \in 1..Len(channelHistory) : channelHistory[i].videoId = video.videoId)

\* newVideos.slice(0, options.maxVideos || 10)
VideosToDownload(videos, channelHistory, maxVideos) ==
  SliceTo(NewVideos(videos, channelHistory),
          IF maxVideos = 0 THEN DefaultMaxVideos ELSE maxVideos)

\* the entry main passes to addToHistory after a download
MainHistoryEntry(channel, video, downloadedFile, clock) ==
  [ videoId |-> video.videoId,
    title |-> video.title,
    publishDate |-> video.publishDate,
    downloadDate |-> ToISOString(clock),
    filePath |-> downloadedFile,
    channelLabel |-> channel.label,
    description |-> Undefined ]

\* statSync(entry.filePath).size of a downloaded file, 0 when there is no such file
SizeOnDisk(filePath) ==
  LET made == { <<c, v>> \in ChannelIndexes \X Videos :
                  ToRelativePath(OutputFilePath(Channels[c], v.videoId)) = filePath }
  IN IF made = {} THEN 0 ELSE (CHOOSE cv \in made : TRUE)[2].fileSize

\* the HistoryEntry list main makes of loadHistory(channel.slug)
MainHistoryEntries(content, channel) ==
  LET entries == LoadHistory(content, channel.slug)
  IN [i \in 1..Len(entries) |->
        [ channelLabel |-> IF entries[i].channelLabel # Undefined /\ entries[i].channelLabel # <<>>
                           THEN entries[i].channelLabel ELSE channel.label,
          videoId |-> entries[i].videoId,
          title |-> entries[i].title,
          filePath |-> entries[i].filePath,
          fileSize |-> SizeOnDisk(entries[i].filePath),
          format |-> ExtNameNoDot(entries[i].filePath),
          publishedAt |-> entries[i].publishDate,
          downloadedAt |-> entries[i].downloadDate,
          description |-> Undefined ]]

\* historyEntriesByChannel: only the channels with entries get a key
MainHistoryEntriesByChannel(content) ==
  [slug \in { Channels[c].slug : c \in { c \in ChannelIndexes :
                 LoadHistory(content, Channels[c].slug) # <<>> } } |->
     MainHistoryEntries(content, ChannelOfSlug(slug))]

\* main starts: options are parsed and the HistoryManager is constructed
MainStart ==
  /\ pc = "idle"
  /\ run.n < MaxRuns
  /\ \E maxVideos \in MaxVideosOptions :
       run' = [n |-> run.n + 1, channel |-> 1, maxVideos |-> maxVideos,
               listing |-> <<>>, selected |-> <<>>, k |-> 0]
  /\ history' = LoadHistorySync(file)
  /\ last' = [NoCall EXCEPT !.op = "open"]
  /\ pc' = "channel"
  /\ feedIn' = NoFeedIn
  /\ feedOut' = NoFeedOut
  /\ UNCHANGED <<file, now, callVars>>

\* the channel's listing is fetched and the videos to download are selected
FetchAndSelect ==
  /\ pc = "channel"
  /\ run.channel <= Len(Channels)
  /\ \E videos \in Listings :
       IF videos = <<>>
       THEN /\ run' = [run EXCEPT !.channel = run.channel + 1, !.listing = <<>>,
                                  !.selected = <<>>, !.k = 0]
            /\ pc' = "channel"
       ELSE /\ run' = [run EXCEPT
                         !.listing = videos,
                         !.selected = VideosToDownload(videos,
                                        LoadHistory(file, Channels[run.channel].slug),
                                        run.maxVideos),
                         !.k = 1]
            /\ pc' = "download"
  /\ UNCHANGED <<storeVars, feedIn, feedOut, callVars>>

\* fetchYouTubeFeed throws: nothing in the loop catches it and main ends
FetchFails ==
  /\ pc = "channel"
  /\ run.channel <= Len(Channels)
  /\ last' = [op |-> "fetchYouTubeFeed", videoId |-> <<>>, threw |-> TRUE,
              existed |-> FALSE]
  /\ pc' = "idle"
  /\ run' = [run EXCEPT !.channel = 0, !.listing = <<>>, !.selected = <<>>, !.k = 0]
  /\ UNCHANGED <<history, file, now, feedIn, feedOut, callVars>>

\* the next selected video is downloaded and recorded
DownloadAndRecord ==
  /\ pc = "download"
  /\ run.k <= Len(run.selected)
  /\ LET channel == Channels[run.channel]
         video == run.selected[run.k]
     IN AddToHistoryCall(channel.slug,
          MainHistoryEntry(channel, video, OutputFilePath(channel, video.videoId), now),
          video.fileSize, TRUE)
  /\ run' = [run EXCEPT !.k = run.k + 1]
  /\ UNCHANGED <<pc, feedIn, feedOut, callVars>>

\* a failed download ends main: the error is not caught around the video
DownloadFailsAborts ==
  /\ pc = "download"
  /\ run.k <= Len(run.selected)
  /\ last' = [op |-> "downloadVideo", videoId |-> run.selected[run.k].videoId,
              threw |-> TRUE, existed |-> MapHas(history, run.selected[run.k].videoId)]
  /\ pc' = "idle"
  /\ run' = [run EXCEPT !.channel = 0, !.listing = <<>>, !.selected = <<>>, !.k = 0]
  /\ UNCHANGED <<history, file, now, feedIn, feedOut, callVars>>

\* downloadVideo throws: the error is logged and the loop goes on
DownloadFails ==
  /\ pc = "download"
  /\ run.k <= Len(run.selected)
  /\ last' = [op |-> "downloadVideo", videoId |-> run.selected[run.k].videoId,
              threw |-> TRUE, existed |-> MapHas(history, run.selected[run.k].videoId)]
  /\ run' = [run EXCEPT !.k = run.k + 1]
  /\ UNCHANGED <<history, file, now, pc, feedIn, feedOut, callVars>>

\* the download succeeds and addToHistory throws on its write: the same catch
\* logs the error and the loop goes on
RecordFails ==
  /\ pc = "download"
  /\ run.k <= Len(run.selected)
  /\ LET channel == Channels[run.channel]
         video == run.selected[run.k]
     IN AddToHistoryCall(channel.slug,
          MainHistoryEntry(channel, video, OutputFilePath(channel, video.videoId), now),
          video.fileSize, FALSE)
  /\ run' = [run EXCEPT !.k = run.k + 1]
  /\ UNCHANGED <<pc, feedIn, feedOut, callVars>>

\* the channel's videos are done
NextChannel ==
  /\ pc = "download"
  /\ run.k > Len(run.selected)
  /\ run' = [run EXCEPT !.channel = run.channel + 1, !.listing = <<>>,
                        !.selected = <<>>, !.k = 0]
  /\ pc' = "channel"
  /\ UNCHANGED <<storeVars, feedIn, feedOut, callVars>>

\* the feed stage: the entries of every channel are loaded and all feeds are built
GenerateFeeds ==
  /\ pc = "channel"
  /\ run.channel > Len(Channels)
  /\ feedIn' = [entriesByChannel |-> MainHistoryEntriesByChannel(file),
                options |-> [baseUrl |-> <<>>]]
  /\ feedOut' = FeedResult("generateAllFeeds",
                  GenerateAllFeedsDocs(Channels, MainHistoryEntriesByChannel(file),
                                       [baseUrl |-> <<>>], now))
  /\ pc' = "idle"
  /\ run' = [run EXCEPT !.channel = 0]
  /\ UNCHANGED <<storeVars, callVars>>

\* time passes between two runs
TickBetweenRuns ==
  /\ pc = "idle"
  /\ run.n > 0
  /\ Tick

InitMain ==
  /\ file = FreshFile
  /\ history = <<>>
  /\ now = 0
  /\ last = NoCall
  /\ pc = "idle"
  /\ run = NoRun
  /\ feedIn = NoFeedIn
  /\ feedOut = NoFeedOut
  /\ NoCallInHand

NextMain ==
  \/ MainStart
  \/ FetchAndSelect
  \/ FetchFails
  \/ DownloadAndRecord
  \/ DownloadFails
  \/ RecordFails
  \/ NextChannel
  \/ GenerateFeeds
  \/ TickBetweenRuns

SpecMain == InitMain /\ [][NextMain]_vars

\* main run once, on a directory that held no history file
MainStartFirst ==
  /\ run.n = 0
  /\ MainStart

NextFirstRun ==
  \/ MainStartFirst
  \/ FetchAndSelect
  \/ FetchFails
  \/ DownloadAndRecord
  \/ DownloadFails
  \/ RecordFails
  \/ NextChannel
  \/ GenerateFeeds

SpecFirstRun == InitMain /\ [][NextFirstRun]_vars

----------------------------------------------------------------------------
(* Properties of the runs *)

\* a selection was just made for the channel run.channel, and nothing was recorded since
JustSelected == pc = "download" /\ run.k = 1

ListingIds(videos) == [i \in 1..Len(videos) |-> videos[i].videoId]

\* the ids with a record in the ledger, in memory or in the file
LedgerIds ==
  { history[i].videoId : i \in 1..Len(history) }
    \cup { LineIds(file)[k] : k \in 1..Len(LineIds(file)) }

\* C3: the videos selected for download are the first `limit` videos of the listing
\* whose id is not in the ledger, in the order of the listing
C3_DiffIsFirstUnknown ==
  (JustSelected /\ run.maxVideos > 0) =>
    ListingIds(run.selected)
      = ListingIds(SliceTo(SelectSeq(run.listing, LAMBDA v : v.videoId \notin LedgerIds),
                           run.maxVideos))

\* C14: with a limit of zero or less no video is selected for download
C14_NoLimitNoSelection ==
  (JustSelected /\ run.maxVideos <= 0) => run.selected = <<>>

\* C15: within one selection each id is selected at most once, also when the
\* listing holds an id more than once
C15_SelectedOnce ==
  JustSelected =>
    \A i, j \in 1..Len(run.selected) :
      run.selected[i].videoId = run.selected[j].videoId => i = j

\* C4: no selection holds an id that had a record in the ledger when it was made,
\* whichever channel or path the id was recorded under
C4_NeverSelectedAgain ==
  [][ (pc = "channel" /\ pc' = "download") =>
        \A i \in 1..Len(run'.selected) : run'.selected[i].videoId \notin LedgerIds ]_vars

\* the channel an entry was recorded for: main records a video of a channel under
\* the channel's label
RecordedFor(entry, channel) == entry.channelLabel = channel.label

\* C5: the entries loadHistory returns for a channel's slug, and the items of the
\* channel's feed, are entries recorded for that channel
C5_OnlyOwnEntries ==
  /\ \A c \in ChannelIndexes :
       LET entries == LoadHistory(file, Channels[c].slug)
       IN \A i \in 1..Len(entries) : RecordedFor(entries[i], Channels[c])
  /\ \A doc \in FeedDocs :
       doc.op = "generateChannelFeed" =>
         \A i \in 1..Len(doc.items) :
           \E k \in 1..Len(DataLines(file)) :
             /\ LineEntry(DataLines(file)[k]).videoId = doc.items[i].guid
             /\ RecordedFor(LineEntry(DataLines(file)[k]), ChannelOfSlug(doc.channel))

----------------------------------------------------------------------------
(* Properties of generateAllFeeds *)

\* the channels that were given at least one entry, in configuration order
ChannelsWithEntries ==
  SelectSeq(Channels, LAMBDA ch : EntriesOf(feedIn.entriesByChannel, ch.slug) # <<>>)

\* C11: generateAllFeeds builds one feed per channel that has entries, in the order
\* of the channels, skips the channels without entries, always builds the aggregate
\* last, and returns exactly the paths of the feeds it wrote
C11_BuildAll ==
  feedOut.op = "generateAllFeeds" =>
    LET n == Len(ChannelsWithEntries)
    IN /\ Len(feedOut.docs) = n + 1
       /\ Len(feedOut.outputPaths) = n + 1
       /\ \A i \in 1..n :
            /\ feedOut.docs[i].op = "generateChannelFeed"
            /\ feedOut.docs[i].channel = ChannelsWithEntries[i].slug
            /\ feedOut.outputPaths[i]
                 = <<"feeds", "/">> \o ChannelsWithEntries[i].slug \o <<".xml">>
       /\ feedOut.docs[n + 1].op = "generateAllChannelsFeed"
       /\ feedOut.outputPaths[n + 1] = <<"feeds", "/", "all-channels", ".xml">>

\* generateAllFeeds ran where no channel had an entry, and the aggregate was built
C11_Witness ==
  /\ feedOut.op = "generateAllFeeds"
  /\ ChannelsWithEntries = <<>>
  /\ Len(feedOut.docs) = 1
  /\ feedOut.outputPaths = << <<"feeds", "/", "all-channels", ".xml">> >>

\* the documents the call that produced feedOut builds when it runs at time t
BuildAt(t) ==
  CASE feedOut.op = "generateChannelFeed" ->
         << GenerateChannelFeedDoc(ChannelOfSlug(feedOut.docs[1].channel),
              EntriesOf(feedIn.entriesByChannel, feedOut.docs[1].channel),
              feedIn.options, t) >>
    [] feedOut.op = "generateAllChannelsFeed" ->
         << GenerateAllChannelsFeedDoc(Channels, feedIn.entriesByChannel, feedIn.options, t) >>
    [] feedOut.op = "generateAllFeeds" ->
         GenerateAllFeedsDocs(Channels, feedIn.entriesByChannel, feedIn.options, t)
    [] OTHER -> <<>>

ClockReadings == 0..MaxClock

\* a document without the two fields that carry the time of the build
Unstamped(doc) == [doc EXCEPT !.lastBuildDate = 0, !.copyright = <<>>]

----------------------------------------------------------------------------
(* Properties of the feeds main builds *)

\* C12: in every feed built, per channel or aggregate, no two items carry the same
\* guid
C12_NoDuplicateItem ==
  \A doc \in FeedDocs :
    \A i, j \in 1..Len(doc.items) : doc.items[i].guid = doc.items[j].guid => i = j

----------------------------------------------------------------------------
(* Properties of a batch *)

\* a step in which the download or the recording of the video in hand failed
ItemFails ==
  /\ pc = "download"
  /\ run.k <= Len(run.selected)
  /\ last'.threw
  /\ run' # run

\* C16: when the download or the recording of one selected video fails, main stays
\* in the channel's batch with the same selection and goes on to the next video; it
\* leaves a batch only after the last selected video was attempted, for the next
\* channel, and it never ends from within a batch
C16_BatchSurvivesFailure ==
  [][ /\ ItemFails =>
           /\ pc' = "download"
           /\ run'.selected = run.selected
           /\ run'.channel = run.channel
           /\ run'.k = run.k + 1
      /\ (pc = "download" /\ pc' # "download") =>
           /\ run.k > Len(run.selected)
           /\ pc' = "channel"
           /\ run'.channel = run.channel + 1 ]_vars

\* C17: when fetching the listing of one channel fails, main goes on with the next
\* channel (and after the last channel with the feed stage) instead of ending
C17_FetchFailureIsolated ==
  [][ (pc = "channel" /\ last'.op = "fetchYouTubeFeed" /\ last'.threw /\ run' # run)
        => (pc' = "channel" /\ run'.channel = run.channel + 1) ]_vars

\* the first of two selected videos failed, and the second is the one in hand
C16_Witness ==
  /\ pc = "download"
  /\ last.threw
  /\ Len(run.selected) = 2
  /\ run.k = 2
  /\ run.selected[1].videoId # run.selected[2].videoId
  /\ last.videoId = run.selected[1].videoId

----------------------------------------------------------------------------
(* HistoryManager constructed on a history file found on disk *)

\* the line addToHistory writes for a video of the first channel
StoredLine(video) == AddToHistoryLine(RecordedEntry(Channels[1], video))

\* lines a damaged or hand-edited file may hold: one cut after its second field,
\* and one whose size is not a number
DamagedLines ==
  { <<"X", Tab>> \o Catalogue[1].videoId,
    LET fields == Split(StoredLine(Catalogue[2]), Tab)
    IN Join([k \in 1..Len(fields) |-> IF k = 5 THEN <<"?">> ELSE fields[k]], Tab) }

FileLines == { StoredLine(v) : v \in Videos } \cup DamagedLines

RECURSIVE WriteLines(_)
WriteLines(lines) ==
  IF lines = <<>> THEN <<>> ELSE Head(lines) \o <<Newline>> \o WriteLines(Tail(lines))

\* the files the constructor may find: the header and up to MaxLines lines
BackingFiles ==
  { FreshFile \o WriteLines(lines) : lines \in UNION { [1..n -> FileLines] : n \in 0..MaxLines } }

InitLoad ==
  /\ file \in BackingFiles
  /\ history = LoadHistorySync(file)
  /\ now = 0
  /\ last = NoCall
  /\ pc = "library"
  /\ run = NoRun
  /\ feedIn = NoFeedIn
  /\ feedOut = NoFeedOut
  /\ NoCallInHand

SpecLoad == InitLoad /\ [][NextStore]_vars

\* a line parses when it has the eight fields of the header and a numeric size
WellFormedLine(line) ==
  /\ Len(Split(line, Tab)) >= 8
  /\ ParseInt(Split(line, Tab)[5]) # NaN

JustLoaded == last.op \in {"none", "open"}

\* C18: after loading, the map holds exactly what the well-formed lines of the file
\* give: a line that does not parse adds no entry and hides or changes none of the
\* others
C18_MalformedSkipped ==
  JustLoaded => history = LoadLines(SelectSeq(DataLines(file), WellFormedLine), <<>>)

----------------------------------------------------------------------------
(* The earlier HistoryManager, which can rewrite its file *)

\* the content regenerateHistoryFile builds from the map
RegeneratedContent(map) ==
  FreshFile \o WriteLines([i \in 1..Len(map) |-> AddEntryLine(map[i])])

\* fs.writeFile opens the history file itself for writing, which empties it
RegenerateOpens ==
  /\ pc = "library"
  /\ pc' = "rewrite"
  /\ file' = <<>>
  /\ last' = [op |-> "regenerateHistoryFile", videoId |-> <<>>, threw |-> FALSE,
              existed |-> FALSE]
  /\ UNCHANGED <<history, now, run, feedIn, feedOut, callVars>>

\* the whole content is written and the call returns
RegenerateCompletes ==
  /\ pc = "rewrite"
  /\ pc' = "library"
  /\ file' = RegeneratedContent(history)
  /\ UNCHANGED <<history, now, last, run, feedIn, feedOut, callVars>>

\* the process dies after part of the content was written; nothing runs after it
RegenerateInterrupted ==
  /\ pc = "rewrite"
  /\ pc' = "stopped"
  /\ \E n \in 0..(Len(RegeneratedContent(history)) - 1) :
       file' = SubSeq(RegeneratedContent(history), 1, n)
  /\ last' = [last EXCEPT !.threw = TRUE]
  /\ UNCHANGED <<history, now, run, feedIn, feedOut, callVars>>

NextRewrite ==
  \/ (pc = "library" /\ AddEntry)
  \/ (pc = "library" /\ Open)
  \/ (pc = "library" /\ Tick)
  \/ RegenerateOpens
  \/ RegenerateCompletes
  \/ RegenerateInterrupted

SpecRewrite == InitStore /\ [][NextRewrite]_vars

\* C19: every step of a rewrite leaves on disk either the content that was there or
\* the complete new content
C19_RewriteAtomic ==
  [][ (pc = "rewrite" \/ pc' = "rewrite")
        => file' \in {file, RegeneratedContent(history)} ]_vars

----------------------------------------------------------------------------
(* Properties of getChannelEntries *)

\* C20: for every channel, getChannelEntries returns each entry of the map with that
\* label once and no other, newest first, and two entries of one publication date in
\* ascending order of their video ids, whatever the order they were recorded in
C20_EntriesForOrdered ==
  \A c \in ChannelIndexes :
    LET got == GetChannelEntries(history, Channels[c].label)
    IN /\ \A e \in { history[k] : k \in 1..Len(history) } :
            CountWhere(got, LAMBDA g : g = e) =
              IF e.channelLabel = Channels[c].label
              THEN CountWhere(history, LAMBDA h : h = e) ELSE 0
       /\ Len(got) = CountWhere(history, LAMBDA h : h.channelLabel = Channels[c].label)
       /\ \A i, j \in 1..Len(got) :
            i < j =>
              /\ GetTime(got[i].publishedAt) >= GetTime(got[j].publishedAt)
              /\ GetTime(got[i].publishedAt) = GetTime(got[j].publishedAt)
                   => ParseInt(got[i].videoId) <= ParseInt(got[j].videoId)

----------------------------------------------------------------------------
(* HistoryManager constructed on a history file that may not be readable *)

\* new HistoryManager() with a constructor that lets the read error escape
OpenReadFailsThrows ==
  /\ last' = [NoCall EXCEPT !.op = "openUnreadable", !.threw = TRUE]
  /\ UNCHANGED <<history, file, now, mainVars>>

\* new HistoryManager() when fs.readFileSync throws: the map is the new Map() of the
\* constructor, loadHistorySync's catch logs the error and the constructor returns
OpenReadFails ==
  /\ history' = <<>>
  /\ last' = [NoCall EXCEPT !.op = "openUnreadable"]
  /\ UNCHANGED <<file, now, mainVars>>

NextOpen ==
  \/ Open
  \/ OpenReadFails
  \/ Tick

SpecOpen == InitLoad /\ [][NextOpen]_vars

\* C21 as stated: a constructor whose read of the history file failed throws
C21_ReadFailurePropagates ==
  last.op = "openUnreadable" => last.threw

\* C21 amended: a constructor whose read of the history file failed returns
\* normally with an empty map, whatever the file holds
C21_ReadFailureSwallowed ==
  last.op = "openUnreadable" => (~last.threw /\ history = <<>>)

\* a store that was opened on a file holding data lines it could not read
C21_Witness ==
  /\ last.op = "openUnreadable"
  /\ ~last.threw
  /\ DataLines(file) # <<>>
  /\ LoadHistorySync(file) # history

----------------------------------------------------------------------------
(* Properties of recording in a run *)

----------------------------------------------------------------------------
(* downloadVideo, called by main's loop over the selected videos of the first channel *)

MaxRetry == 2

DefaultRetryCount == 3

\* the options a caller may pass: without retryCount, or with one
DownloadOptionsGiven ==
  { [format |-> <<"mp4">>] }
    \cup { [format |-> <<"mp4">>, retryCount |-> n] : n \in 0..MaxRetry }

\* const { retryCount = 3 } = options
RetryCountOf(options) ==
  IF "retryCount" \in DOMAIN options THEN options.retryCount ELSE DefaultRetryCount

\* a loop condition that allows one attempt more
LoopContinuesInclusive(attempt, retryCount) == attempt <= retryCount

\* the condition of the retry loop
LoopContinues(attempt, retryCount) == attempt < retryCount

\* the error the n-th attempt fails with
ErrorOf(n) == <<"error", n>>

\* a check that never finds the file
PathExistsNever(filePath, files) == FALSE

\* fs.pathExists
PathExists(filePath, files) == filePath \in files

DownloadPath == OutputFilePath(Channels[download.channel], download.videoId)

\* main calls downloadVideo for a video the ledger does not know; when the output
\* file exists already the call returns its path at once
DownloadVideoCalled ==
  /\ download.state \in {"none", "recorded", "caught"}
  /\ \E c \in {1}, video \in Videos, options \in DownloadOptionsGiven :
       /\ ~IsDownloaded(video.videoId)
       /\ Len(DataLines(file)) < MaxLines
       /\ LET outputFilePath == OutputFilePath(Channels[c], video.videoId)
              exists == PathExists(outputFilePath, disk)
          IN download' = [ state |-> IF exists THEN "returned" ELSE "running",
                           channel |-> c, videoId |-> video.videoId,
                           retryCount |-> RetryCountOf(options),
                           attempt |-> 0, executed |-> 0, lastError |-> Null,
                           result |-> IF exists THEN outputFilePath ELSE Null ]
  /\ UNCHANGED <<storeVars, pc, run, feedIn, feedOut, disk, calls>>

\* an attempt: the command runs and fs.stat finds the output file
AttemptSucceeds ==
  /\ download.state = "running"
  /\ LoopContinues(download.attempt, download.retryCount)
  /\ disk' = disk \cup {DownloadPath}
  /\ download' = [download EXCEPT !.state = "returned",
                                  !.executed = download.executed + 1,
                                  !.result = DownloadPath]
  /\ UNCHANGED <<storeVars, pc, run, feedIn, feedOut, calls>>

\* an attempt: the command or fs.stat fails, the error is kept and the loop goes on
AttemptFails ==
  /\ download.state = "running"
  /\ LoopContinues(download.attempt, download.retryCount)
  /\ download' = [download EXCEPT !.executed = download.executed + 1,
                                  !.lastError = ErrorOf(download.attempt + 1),
                                  !.attempt = download.attempt + 1]
  /\ UNCHANGED <<storeVars, pc, run, feedIn, feedOut, disk, calls>>

\* the loop is over: throw lastError
AllAttemptsFailed ==
  /\ download.state = "running"
  /\ ~LoopContinues(download.attempt, download.retryCount)
  /\ download' = [download EXCEPT !.state = "threw", !.result = download.lastError]
  /\ UNCHANGED <<storeVars, pc, run, feedIn, feedOut, disk, calls>>

\* main: downloadVideo returned, addToHistory records the video
RecordDownloaded ==
  /\ download.state = "returned"
  /\ LET channel == Channels[download.channel]
         video == VideoOfCatalogue(download.videoId)
     IN AddToHistoryCall(channel.slug,
          MainHistoryEntry(channel, video, download.result, now), video.fileSize, TRUE)
  /\ download' = [download EXCEPT !.state = "recorded"]
  /\ UNCHANGED <<pc, run, feedIn, feedOut, disk, calls>>

\* main: downloadVideo threw, the catch around the video logs the error
CatchDownloadError ==
  /\ download.state = "threw"
  /\ download' = [download EXCEPT !.state = "caught"]
  /\ UNCHANGED <<storeVars, pc, run, feedIn, feedOut, disk, calls>>

\* the process is stopped wherever it is, and main is started again later
StopAndRunAgain ==
  /\ download.state # "none"
  /\ download' = NoDownload
  /\ history' = LoadHistorySync(file)
  /\ last' = [NoCall EXCEPT !.op = "open"]
  /\ UNCHANGED <<file, now, pc, run, feedIn, feedOut, disk, calls>>

NextDownload ==
  \/ DownloadVideoCalled
  \/ AttemptSucceeds
  \/ AttemptFails
  \/ AllAttemptsFailed
  \/ RecordDownloaded
  \/ CatchDownloadError
  \/ StopAndRunAgain

SpecDownload == InitStore /\ [][NextDownload]_vars

\* C23: a downloadVideo call runs the command at most retryCount times; once an
\* attempt succeeded the call has returned the output path and runs nothing more;
\* a call that threw made retryCount attempts, all failed, and threw the error of
\* the last of them
C23_RetriesBounded ==
  /\ download.executed <= download.retryCount
  /\ (download.state \in {"returned", "recorded"} /\ download.executed > 0)
       => (download.result = DownloadPath /\ download.executed = download.attempt + 1)
  /\ download.state \in {"threw", "caught"}
       => /\ download.executed = download.retryCount
          /\ download.attempt = download.retryCount
          /\ download.retryCount > 0 => download.result = ErrorOf(download.retryCount)

\* a call that gave up after more than one failed attempt
C23_Witness ==
  /\ download.state = "threw"
  /\ download.executed > 1
  /\ download.result = ErrorOf(download.executed)

----------------------------------------------------------------------------
(* Properties of the ledger over time *)

MapIds(map) == { map[i].videoId : i \in 1..Len(map) }

FileIds(content) == { LineIds(content)[k] : k \in 1..Len(LineIds(content)) }

\* C24: no step removes an id from the in-memory map or from the data lines of the
\* file, so an id isDownloaded knew stays known
C24_NeverDeleted ==
  [][ /\ MapIds(history) \subseteq MapIds(history')
      /\ FileIds(file) \subseteq FileIds(file') ]_vars

----------------------------------------------------------------------------
(* HistoryManager recording entries whose texts hold tabs, newlines and accents *)

FreeTitles == { <<"T">>, <<"é">>, <<"T", Tab, "U">>, <<"T", Newline, "U">> }

FreeDescriptions == { Undefined, <<"d">>, <<"d", Tab, Newline, "é">> }

FreeTextVideos ==
  { [v EXCEPT !.title = t, !.description = d] :
      v \in Videos, t \in FreeTitles, d \in FreeDescriptions }

\* addToHistory for a video the ledger does not know
AddToHistoryFreeText ==
  \E v \in FreeTextVideos :
    /\ ~IsDownloaded(v.videoId)
    /\ AddToHistoryCall(Channels[1].slug,
         MainEntry(Channels[1], v, OutputFilePath(Channels[1], v.videoId), now),
         v.fileSize, TRUE)
    /\ UNCHANGED mainVars

NextFreeText ==
  \/ AddToHistoryFreeText
  \/ Open
  \/ Tick

SpecFreeText == InitStore /\ [][NextFreeText]_vars

\* C25: whatever the titles and descriptions recorded, a store opened on the file
\* holds the entries that were recorded, one per record, every field as it was
C25_FreeTextRoundTrip ==
  [][ last'.op = "open" => history' = history ]_vars

----------------------------------------------------------------------------
(* Properties of the FeedGenerator's effects *)

\* C26: a call of generateChannelFeed, generateAllChannelsFeed or generateAllFeeds
\* leaves the map, the history file and the lists passed to it as they were, the
\* entries in the order given
C26_PureProjection ==
  [][ /\ history' = history
      /\ file' = file
      /\ feedIn' = feedIn ]_vars

\* a feed was built from a list that was not given newest first
C26_Witness ==
  \E doc \in FeedDocs :
    /\ Len(doc.items) > 1
    /\ \E i, j \in 1..Len(FeedGiven(doc)) :
         /\ i < j
         /\ GetTime(FeedGiven(doc)[i].publishedAt) < GetTime(FeedGiven(doc)[j].publishedAt)

----------------------------------------------------------------------------
(* Properties of the map and the file together *)

\* C27: after a record that completed without error, the ids of the map are the ids
\* on the data lines of the file
C27_MapMatchesFile ==
  (last.op \in RecordOps /\ ~last.threw) => MapIds(history) = FileIds(file)

----------------------------------------------------------------------------
(* The maintenance scripts that rewrite the history file *)

\* the history clean-up script: the header and the lines of eight fields or more
\* whose file exists, joined by newlines
CleanedContent(content, files) ==
  LET lines == Split(Trim(content), Newline)
      kept == SelectSeq(SubSeq(lines, 2, Len(lines)), LAMBDA line :
                /\ Trim(line) # <<>>
                /\ Len(Split(line, Tab)) >= 8
                /\ PathJoin(RootDir, Split(line, Tab)[4]) \in files)
  IN Join(<<lines[1]>> \o kept, Newline)

\* the label-fix script: every line of eight fields or more, its label replaced by
\* the label of the channel whose slug is the second part of its file path
RelabelledContent(content) ==
  LET lines == Split(Trim(content), Newline)
      kept == SelectSeq(SubSeq(lines, 2, Len(lines)), LAMBDA line :
                Trim(line) # <<>> /\ Len(Split(line, Tab)) >= 8)
      Fixed(line) ==
        LET parts == Split(line, Tab)
            pathParts == Split(parts[4], "/")
            channelSlug == IF Len(pathParts) >= 2 THEN pathParts[2] ELSE <<>>
            channelLabel == IF channelSlug # <<>> /\ channelSlug \in Slugs
                            THEN ChannelOfSlug(channelSlug).label ELSE parts[1]
        IN Join([k \in 1..Len(parts) |-> IF k = 1 THEN channelLabel ELSE parts[k]], Tab)
  IN Join(<<lines[1]>> \o [k \in 1..Len(kept) |-> Fixed(kept[k])], Newline)

CleanHistoryScript ==
  /\ file' = CleanedContent(file, disk)
  /\ last' = [NoCall EXCEPT !.op = "cleanHistory"]
  /\ UNCHANGED <<history, now, pc, run, feedIn, feedOut, callVars>>

FixLabelsScript ==
  /\ file' = RelabelledContent(file)
  /\ last' = [NoCall EXCEPT !.op = "fixLabels"]
  /\ UNCHANGED <<history, now, pc, run, feedIn, feedOut, callVars>>

\* the records the file holds, counted by their tabs, glued to other lines or not
WrittenRecords(content) ==
  Cardinality({ i \in 1..Len(content) : content[i] = Tab }) \div 8

NextMaintained ==
  \/ (WrittenRecords(file) < MaxLines /\ NextDownload)
  \/ StopAndRunAgain
  \/ CleanHistoryScript
  \/ FixLabelsScript

SpecMaintained == InitStore /\ [][NextMaintained]_vars

\* C29: recording a new video adds its entry, as recorded, to what a store opened on
\* the file holds, and leaves the entries the file held as they were, whether or
\* not a maintenance script rewrote the file before
C29_AppendableAfterRewrite ==
  [][ (last'.op = "addToHistory" /\ ~last'.existed /\ ~last'.threw)
        => LoadHistorySync(file') =
             MapSet(LoadHistorySync(file), last'.videoId, MapGet(history', last'.videoId)) ]_vars

----------------------------------------------------------------------------
(* Properties of a download whose output file exists *)

\* C30: a downloadVideo call made while the output file exists returns its path
\* without running the command and leaves the files as they are; the record that
\* follows puts the video in the map and in the file, still without a command run
C30_ExistingFileNotAcquired ==
  [][ /\ ( /\ download.state \in {"none", "recorded", "caught"}
           /\ download'.state \notin {"none", "recorded", "caught"}
           /\ OutputFilePath(Channels[download'.channel], download'.videoId) \in disk )
        => /\ download'.state = "returned"
           /\ download'.result = OutputFilePath(Channels[download'.channel], download'.videoId)
           /\ download'.executed = 0
           /\ disk' = disk
      /\ ( /\ download.state = "returned"
           /\ download.executed = 0
           /\ download'.state = "recorded" )
        => /\ download'.executed = 0
           /\ disk' = disk
           /\ MapHas(history', download.videoId)
           /\ download.videoId \in FileIds(file') ]_vars

\* a video recorded by a run that found its file on disk and ran no command: the
\* run that had acquired it was stopped before it recorded it
C30_Witness ==
  /\ download.state = "recorded"
  /\ download.executed = 0
  /\ DownloadPath \in disk
  /\ IsDownloaded(download.videoId)
  /\ download.videoId \in FileIds(file)

----------------------------------------------------------------------------
(* HistoryManager calls in flight at once, interleaved at their awaits *)

MaxInFlight == 2

\* addToHistory is called: it runs up to its first await (fs.ensureDir, then fs.stat)
CallAddToHistory ==
  /\ Len(calls) < MaxInFlight
  /\ \E c \in ChannelIndexes, v \in Videos :
       calls' = Append(calls, [op |-> "addToHistory", channel |-> c,
                               videoId |-> v.videoId, at |-> "stat", line |-> <<>>])
  /\ UNCHANGED <<storeVars, pc, run, feedIn, feedOut, download, disk>>

\* addEntry is called: it sets the map and builds its line before its only await
CallAddEntry ==
  /\ Len(calls) < MaxInFlight
  /\ \E c \in ChannelIndexes, v \in Videos :
       LET entry == AddEntryEntry(Channels[c].label, v, DownloadResultOf(Channels[c], v), now)
       IN /\ history' = MapSet(history, entry.videoId, entry)
          /\ calls' = Append(calls, [op |-> "addEntry", channel |-> c,
                                     videoId |-> v.videoId, at |-> "appendFile",
                                     line |-> AddEntryLine(entry)])
  /\ UNCHANGED <<file, now, last, pc, run, feedIn, feedOut, download, disk>>

\* addToHistory goes on after fs.stat: the has-check, the set and the line are made
\* in one piece, up to the await of fs.appendFile
AddToHistoryResumes ==
  \E i \in 1..Len(calls) :
    /\ calls[i].at = "stat"
    /\ LET channel == Channels[calls[i].channel]
           video == VideoOfCatalogue(calls[i].videoId)
           newEntry == AddToHistoryEntry(channel.slug,
                         MainEntry(channel, video,
                                   OutputFilePath(channel, video.videoId), now),
                         video.fileSize)
           existed == MapHas(history, newEntry.videoId)
       IN /\ history' = AddToHistoryMap(history, newEntry)
          /\ calls' = [calls EXCEPT ![i].at = IF existed THEN "done" ELSE "appendFile",
                                    ![i].line = IF existed THEN <<>>
                                                ELSE AddToHistoryLine(newEntry)]
          /\ last' = IF existed
                     THEN [op |-> "addToHistory", videoId |-> newEntry.videoId,
                           threw |-> FALSE, existed |-> TRUE]
                     ELSE last
    /\ UNCHANGED <<file, now, pc, run, feedIn, feedOut, download, disk>>

\* fs.appendFile completes and the call returns
AppendFileCompletes ==
  \E i \in 1..Len(calls) :
    /\ calls[i].at = "appendFile"
    /\ file' = AppendFile(file, calls[i].line)
    /\ calls' = [calls EXCEPT ![i].at = "done"]
    /\ last' = [op |-> calls[i].op, videoId |-> calls[i].videoId, threw |-> FALSE,
                existed |-> FALSE]
    /\ UNCHANGED <<history, now, pc, run, feedIn, feedOut, download, disk>>

NextInFlight ==
  \/ CallAddToHistory
  \/ CallAddEntry
  \/ AddToHistoryResumes
  \/ AppendFileCompletes

SpecInFlight == InitStore /\ [][NextInFlight]_vars

\* C28: when two calls for one id, new to the ledger, were in flight at once and
\* have both returned, the file holds one data line for the id and the map one entry
C28_OneRecordWhenInFlight ==
  \A i, j \in 1..Len(calls) :
    ( /\ i < j
      /\ calls[i].videoId = calls[j].videoId
      /\ \A k \in 1..Len(calls) : calls[k].at = "done" )
      => /\ CountWhere(LineIds(file), LAMBDA id : id = calls[i].videoId) = 1
         /\ CountWhere(history, LAMBDA e : e.videoId = calls[i].videoId) = 1

====
